---- MODULE Spec2Model ----
(***************************************************************************)
(* A model of spatialtree (src/spatialtree/__init__.py): a binary space    *)
(* partitioning tree with spill, its construction (__init__, __split),     *)
(* update, the two retrieval protocols and k_nearest.                      *)
(*                                                                         *)
(* Numbers.  Vectors have integer coordinates, so every projection         *)
(* numpy.dot(w, x) onto a signed axis direction is an integer.  spill is   *)
(* held in tenths (5 stands for 0.5) and a threshold in hundredths (150    *)
(* stands for 1.5): with spill a multiple of 0.1 every quantile that       *)
(* mquantiles interpolates is an exact multiple of 0.01, so the model      *)
(* computes the thresholds exactly, in rational arithmetic.                *)
(*                                                                         *)
(* A tree is a function from paths to nodes: the root is <<>>, and the     *)
(* node self.__children[c] of the node at path p is at Append(p, c).       *)
(***************************************************************************)
EXTENDS Integers, Sequences, FiniteSets, TLC

\* ---------------------------------------------------------------- bounds
\* largest explicit height= passed to the constructor
MaxHeight == 2
\* number of update calls in one run
MaxUpdates == 1
\* largest k= passed to k_nearest
MaxK == 2

\* ---------------------------------------------------------------- inputs
None == "None"

\* the keys of the initial store, and the keys update may insert or re-insert
InitKeys == {1, 2, 3}
Keys == {1, 2, 3, 4}

\* the vectors of the runs: points of the plane (dimension d = 2)
Vectors == {<<0, 0>>, <<1, 2>>, <<2, 1>>}

\* spill=0 (a partition tree) and spill=0.5, in tenths
Spills == {0, 5}

\* the unit directions numpy.random.randn may be normalised to in these runs
RPDirections == {<<0, 1>>, <<-1, 0>>}

Rules == {"kd", "rp"}

\* min_items= passed to the constructor
MinItems == {1, 2, 3}

\* the keys the entry set of an update call may hold: one in the initial store
\* (re-inserted, perhaps with another vector) and one that is new
UpdateKeys == {2, 4}

\* ---------------------------------------------------------------- helpers
RECURSIVE SumTo(_, _)
SumTo(f, n) == IF n = 0 THEN 0 ELSE f[n] + SumTo(f, n - 1)

\* numpy.dot(w, x) of two vectors of the same length
dot(w, x) == SumTo([j \in 1..Len(w) |-> w[j] * x[j]], Len(w))

\* numpy.sum((x - y) ** 2)
sqdist(x, y) == SumTo([j \in 1..Len(x) |-> (x[j] - y[j]) * (x[j] - y[j])], Len(x))

RECURSIVE SetSum(_, _)
SetSum(S, f) ==
    IF S = {} THEN 0
    ELSE LET i == CHOOSE i \in S : TRUE IN f[i] + SetSum(S \ {i}, f)

\* the values of wx in ascending order, with their repetitions (numpy.sort)
RECURSIVE sorted(_, _)
sorted(S, wx) ==
    IF S = {} THEN <<>>
    ELSE LET i == CHOOSE i \in S : \A j \in S : wx[i] <= wx[j]
         IN <<wx[i]>> \o sorted(S \ {i}, wx)

clip(x, lo, hi) == IF x < lo THEN lo ELSE IF x > hi THEN hi ELSE x

\* quantile with alphap = betap = 0 in place of the defaults: aleph = n * p + p
quantile_alpha0(a, p20) ==
    LET x == sorted(DOMAIN a, a)
        n == Len(x)
        aleph == 5 * n * p20 + 5 * p20
        k == clip(aleph, 100, 100 * (n - 1)) \div 100
        gamma == clip(aleph - 100 * k, 0, 100)
    IN IF n = 1 THEN 100 * x[1]
       ELSE (100 - gamma) * x[k] + gamma * x[k + 1]

\* scipy.stats.mstats.mquantiles(a, prob) with its defaults alphap = betap = 0.4,
\* for one probability p = p20 / 20; a is a non-empty function, the result is in
\* hundredths:
\*     m = alphap + p * (1 - alphap - betap);  aleph = n * p + m
\*     k = floor(clip(aleph, 1, n - 1));  gamma = clip(aleph - k, 0, 1)
\*     (1 - gamma) * x[k - 1] + gamma * x[k]     (x sorted, indexed from 0)
\* and x[0] when n = 1.
quantile(a, p20) ==
    LET x == sorted(DOMAIN a, a)
        n == Len(x)
        aleph == 5 * n * p20 + 40 + p20
        k == clip(aleph, 100, 100 * (n - 1)) \div 100
        gamma == clip(aleph - 100 * k, 0, 100)
    IN IF n = 1 THEN 100 * x[1]
       ELSE (100 - gamma) * x[k] + gamma * x[k + 1]

\* mquantiles with the two probabilities in the other order
mquantiles_swapped(wx, spill) == <<quantile(wx, 10 + spill), quantile(wx, 10 - spill)>>

\* mquantiles(wx.values(), [0.5 - spill/2, 0.5 + spill/2])
mquantiles(wx, spill) == <<quantile(wx, 10 - spill), quantile(wx, 10 + spill)>>

\* ---------------------------------------------------------------- split rules
\* numpy.argmax: the first index of a largest entry
argmax(f) == CHOOSE j \in DOMAIN f :
                /\ \A i \in DOMAIN f : f[i] <= f[j]
                /\ \A i \in DOMAIN f : i < j => f[i] < f[j]

unit(d, j) == [c \in 1..d |-> IF c = j THEN 1 ELSE 0]

\* __KD: the coordinate of maximum variance.  sigma[j] is
\* (moment_2 - n * mean^2) / (n - 1) = (n * moment_2 - sum^2) / (n * (n - 1)),
\* so for n >= 2 the argmax is that of n * moment_2 - sum^2; for n = 1 every
\* entry is 0.0 / 0.0 = nan and numpy.argmax returns the first.
KD(data, indices, d) ==
    LET n == Cardinality(indices)
        sigma == [j \in 1..d |->
                    n * SetSum(indices, [i \in indices |-> data[i][j] * data[i][j]])
                    - SetSum(indices, [i \in indices |-> data[i][j]])
                      * SetSum(indices, [i \in indices |-> data[i][j]])]
    IN IF n = 1 THEN unit(d, 1) ELSE unit(d, argmax(sigma))

Min(S) == CHOOSE x \in S : \A y \in S : x <= y
Max(S) == CHOOSE x \in S : \A y \in S : y <= x

\* __RP: of the sampled unit directions W (a sequence of samples_rp rows), the
\* one that spreads the members most
RP(data, indices, W) ==
    LET spread == [r \in 1..Len(W) |->
                     Max({dot(W[r], data[i]) : i \in indices})
                     - Min({dot(W[r], data[i]) : i \in indices})]
    IN W[argmax(spread)]

\* ---------------------------------------------------------------- construction
\* rand is the matrix W of samples_rp = 2 unit directions that
\* numpy.random.randn yields, normalised, when rule = 'rp'; within one
\* construction every node draws the same W
Samples == {<<a, b>> : a, b \in RPDirections} \ {<<a, a>> : a \in RPDirections}

\* the dimensionality: len(data[x]) of the first member
dimension(data, indices) == Len(data[CHOOSE x \in indices : TRUE])

RECURSIVE spatialtree(_, _, _, _, _)
RECURSIVE split(_, _, _, _, _, _)

\* stops with len(indices) <= min_items
stops_closed(kwargs) ==
    \/ kwargs.height = 0
    \/ Cardinality(kwargs.indices) <= kwargs.min_items

\* __split returns 0 before it splits: no height left, or too few items
stops(kwargs) ==
    \/ kwargs.height = 0
    \/ Cardinality(kwargs.indices) < kwargs.min_items

\* partition with val <= thresholds[-1] for the left set
partition_closed(wx, thresholds) ==
    <<{i \in DOMAIN wx : 100 * wx[i] <= thresholds[2]},
      {i \in DOMAIN wx : 100 * wx[i] >= thresholds[1]}>>

\* the partition of the members by their projections: <<left_set, right_set>>
partition(wx, thresholds) ==
    <<{i \in DOMAIN wx : 100 * wx[i] < thresholds[2]},
      {i \in DOMAIN wx : 100 * wx[i] >= thresholds[1]}>>

\* __split: self is the node __init__ has just filled in, at path; the result is
\* the subtree rooted there (self with its split and height, then its children)
split(self, path, data, isdict, kwargs, rand) ==
    IF stops(kwargs) THEN path :> self
    ELSE
      LET w == IF kwargs.rule = "kd"
               THEN KD(data, self.indices, dimension(data, self.indices))
               ELSE RP(data, self.indices, rand)
          wx == [i \in self.indices |-> dot(w, data[i])]
          thresholds == mquantiles(wx, self.spill)
          left_set == partition(wx, thresholds)[1]
          right_set == partition(wx, thresholds)[2]
          p0 == Append(path, 0)
          p1 == Append(path, 1)
          child0 == spatialtree(p0, data, isdict,
                        [kwargs EXCEPT !.height = @ - 1, !.indices = left_set], rand)
          child1 == spatialtree(p1, data, isdict,
                        [kwargs EXCEPT !.height = @ - 1, !.indices = right_set], rand)
          height == 1 + Max({child0[p0].height, child1[p1].height})
      IN (path :> [self EXCEPT !.w = w, !.thresholds = thresholds,
                               !.children = <<p0, p1>>, !.height = height])
         @@ child0 @@ child1

\* __init__, with every keyword argument given
spatialtree(path, data, isdict, kwargs, rand) ==
    split([indices |-> kwargs.indices, splitRule |-> kwargs.rule,
           spill |-> kwargs.spill, children |-> None, w |-> None,
           thresholds |-> None, keyvalue |-> isdict, height |-> 0],
          path, data, isdict, kwargs, rand)

\* ---------------------------------------------------------------- update
\* route with wx > thresholds[0] for the right set
route_strict(self, D) ==
    <<[key \in {key \in DOMAIN D :
                  100 * dot(self.w, D[key]) < self.thresholds[2]} |-> D[key]],
      [key \in {key \in DOMAIN D :
                  100 * dot(self.w, D[key]) > self.thresholds[1]} |-> D[key]]>>

\* route with wx <= thresholds[-1] for the left set
route_closed(self, D) ==
    <<[key \in {key \in DOMAIN D :
                  100 * dot(self.w, D[key]) <= self.thresholds[2]} |-> D[key]],
      [key \in {key \in DOMAIN D :
                  100 * dot(self.w, D[key]) >= self.thresholds[1]} |-> D[key]]>>

\* the entries of D that go to each child: <<left_set, right_set>>
route(self, D) ==
    <<[key \in {key \in DOMAIN D :
                  100 * dot(self.w, D[key]) < self.thresholds[2]} |-> D[key]],
      [key \in {key \in DOMAIN D :
                  100 * dot(self.w, D[key]) >= self.thresholds[1]} |-> D[key]]>>

\* update with self.__indices = set(D.keys()) for self.__indices.update(D.keys())
RECURSIVE update_replaces(_, _, _)
update_replaces(T, path, D) ==
    LET self == T[path]
        T1 == [T EXCEPT ![path].indices = DOMAIN D]
    IN IF self.children = None THEN T1
       ELSE update_replaces(update_replaces(T1, self.children[1], route(self, D)[1]),
                            self.children[2], route(self, D)[2])

RECURSIVE update(_, _, _)
\* T.update(D) at the node at path of tree T, once the key-value test has passed
\* (every node of a tree has the root's __keyvalue); the result is the tree
update(T, path, D) ==
    LET self == T[path]
        T1 == [T EXCEPT ![path].indices = @ \cup DOMAIN D]
    IN IF self.children = None THEN T1
       ELSE
         LET left_set == route(self, D)[1]
             right_set == route(self, D)[2]
         IN update(update(T1, self.children[1], left_set), self.children[2], right_set)

\* ---------------------------------------------------------------- retrieval
\* __retrieveIndex that returns the members of the leaf, index among them
RECURSIVE retrieveIndex_keeps(_, _, _)
retrieveIndex_keeps(T, path, index) ==
    LET self == T[path]
    IN IF index \in self.indices
       THEN IF self.children = None THEN self.indices
            ELSE retrieveIndex_keeps(T, self.children[1], index)
                 \cup retrieveIndex_keeps(T, self.children[2], index)
       ELSE {}

RECURSIVE retrieveIndex(_, _, _)
retrieveIndex(T, path, index) ==
    LET self == T[path]
    IN IF index \in self.indices
       THEN IF self.children = None THEN self.indices \ {index}
            ELSE retrieveIndex(T, self.children[1], index)
                 \cup retrieveIndex(T, self.children[2], index)
       ELSE {}

\* visits with Wx > thresholds[0] for the right child
visits_strict(self, vector) ==
    LET Wx == dot(self.w, vector)
    IN <<100 * Wx < self.thresholds[2], 100 * Wx > self.thresholds[1]>>

\* should we go left, should we go right: <<left, right>>
visits(self, vector) ==
    LET Wx == dot(self.w, vector)
    IN <<100 * Wx < self.thresholds[2], 100 * Wx >= self.thresholds[1]>>

RECURSIVE retrieveVector(_, _, _)
retrieveVector(T, path, vector) ==
    LET self == T[path]
    IN IF self.children = None THEN self.indices
       ELSE (IF visits(self, vector)[2]
             THEN retrieveVector(T, self.children[2], vector) ELSE {})
            \cup
            (IF visits(self, vector)[1]
             THEN retrieveVector(T, self.children[1], vector) ELSE {})

\* a query is index=k or vector=v
IndexQ(k) == [kind |-> "index", index |-> k]
VectorQ(v) == [kind |-> "vector", vector |-> v]

retrievalSet(T, q) ==
    IF q.kind = "index" THEN retrieveIndex(T, <<>>, q.index)
    ELSE retrieveVector(T, <<>>, q.vector)

\* ---------------------------------------------------------------- k_nearest
\* less with the distances compared the other way
less_reversed(a, b) == a[1] > b[1] \/ (a[1] = b[1] /\ a[2] < b[2])

\* the pairs (distance, key) are ordered as Python orders tuples
less(a, b) == a[1] < b[1] \/ (a[1] = b[1] /\ a[2] < b[2])

\* heapq.nsmallest(k, pairs): the k smallest pairs, ascending
RECURSIVE nsmallest(_, _)
nsmallest(k, pairs) ==
    IF k = 0 \/ pairs = {} THEN <<>>
    ELSE LET m == CHOOSE a \in pairs : \A b \in pairs : a = b \/ less(a, b)
         IN <<m>> \o nsmallest(k - 1, pairs \ {m})

k_nearest(T, data, k, q) ==
    LET x == IF q.kind = "index" THEN data[q.index] ELSE q.vector
        dg == {<<sqdist(x, data[i]), i>> : i \in retrievalSet(T, q)}
        S == nsmallest(k, dg)
    IN [j \in 1..Len(S) |-> S[j][2]]

\* ---------------------------------------------------------------- state
VARIABLES
    data,       \* the store passed to the constructor and to k_nearest: key -> vector
    isdict,     \* isinstance(data, dict): a key-value store, not an array
    kwargs,     \* the keyword arguments the tree was constructed with
    built,      \* the tree as the constructor returned it
    tree0,      \* the tree the constructor returns for the same arguments and spill=0
    tree,       \* the tree: path -> node
    nupdates,   \* update calls made so far
    reinserted, \* an update call held a key that was already in the tree
    moved,      \* an update call gave a key of the tree another vector
    last        \* the last call and what it returned or raised

vars == <<data, isdict, kwargs, built, tree0, tree, nupdates, reinserted, moved, last>>

\* the state after T = spatialtree(d0, rule=, spill=, height=, min_items=)
Constructed(d0, dict, rule, spill, height, min_items, rand) ==
    LET kw == [rule |-> rule, spill |-> spill, height |-> height,
               min_items |-> min_items, indices |-> DOMAIN d0]
        T == spatialtree(<<>>, d0, dict, kw, rand)
    IN /\ data = d0
       /\ isdict = dict
       /\ kwargs = kw
       /\ built = T
       /\ tree0 = spatialtree(<<>>, d0, dict, [kw EXCEPT !.spill = 0], rand)
       /\ tree = T
       /\ nupdates = 0
       /\ reinserted = FALSE
       /\ moved = FALSE
       /\ last = [op |-> "init"]

Init ==
    \E d0 \in [InitKeys -> Vectors], dict \in BOOLEAN, rule \in Rules,
       spill \in Spills, height \in 0..MaxHeight, min_items \in MinItems,
       rand \in Samples :
        /\ rule = "kd" => rand = CHOOSE W \in Samples : TRUE
        /\ Constructed(d0, dict, rule, spill, height, min_items, rand)

\* the entry sets of an update call: empty, or one key with its vector
Entries == {<<>>} \cup {k :> v : k \in UpdateKeys, v \in Vectors}

\* A query changes no field of the tree: a call made after it starts from the
\* tree it was made on.  The calls of a run are therefore taken from the states
\* the constructor or update left, and a query ends the run.
AtCall == last.op \in {"init", "update"}

\* T.update(D); the caller keeps the vectors of the entries in the store
Update(D) ==
    /\ AtCall
    /\ nupdates < MaxUpdates
    /\ nupdates' = nupdates + 1
    /\ IF tree[<<>>].keyvalue
       THEN /\ tree' = update(tree, <<>>, D)
            /\ data' = D @@ data
            /\ reinserted' = (reinserted \/ DOMAIN D \cap tree[<<>>].indices # {})
            /\ moved' = (moved \/ \E key \in DOMAIN D \cap tree[<<>>].indices :
                                     D[key] # data[key])
            /\ last' = [op |-> "update", D |-> D, raised |-> None]
       ELSE /\ last' = [op |-> "update", D |-> D, raised |-> "TypeError"]
            /\ UNCHANGED <<data, tree, reinserted, moved>>
    /\ UNCHANGED <<isdict, kwargs, built, tree0>>

\* T.retrievalSet(index=k) or T.retrievalSet(vector=v)
RetrievalSet(q) ==
    /\ AtCall
    /\ last' = [op |-> "retrievalSet", q |-> q, ret |-> retrievalSet(tree, q)]
    /\ UNCHANGED <<data, isdict, kwargs, built, tree0, tree, nupdates, reinserted, moved>>

\* T.k_nearest(data, k=k, index=i) or T.k_nearest(data, k=k, vector=v);
\* data[index] raises KeyError for a key the store does not hold
KNearest(k, q) ==
    /\ AtCall
    /\ IF q.kind = "index" /\ q.index \notin DOMAIN data
       THEN last' = [op |-> "k_nearest", k |-> k, q |-> q, raised |-> "KeyError"]
       ELSE last' = [op |-> "k_nearest", k |-> k, q |-> q, raised |-> None,
                     ret |-> k_nearest(tree, data, k, q)]
    /\ UNCHANGED <<data, isdict, kwargs, built, tree0, tree, nupdates, reinserted, moved>>

Queries == {IndexQ(k) : k \in Keys} \cup {VectorQ(v) : v \in Vectors}

Next ==
    \/ \E D \in Entries : Update(D)
    \/ \E q \in Queries : RetrievalSet(q)

Spec == Init /\ [][Next]_vars

NextKnn ==
    \/ \E D \in Entries : Update(D)
    \/ \E k \in 1..MaxK, q \in Queries : KNearest(k, q)

SpecKnn == Init /\ [][NextKnn]_vars

\* the same store and arguments under spill = 0.5 and under spill = 0: the tree
\* and tree0, with rule 'kd' (the one rule whose direction the members decide)
SpillVectors == {<<0, 0>>, <<0, 2>>, <<1, 1>>, <<1, 2>>}

InitSpill ==
    \E d0 \in [Keys -> SpillVectors], height \in 0..MaxHeight, min_items \in MinItems :
        Constructed(d0, TRUE, "kd", 5, height, min_items, CHOOSE W \in Samples : TRUE)

SpillQueries == {IndexQ(k) : k \in Keys} \cup {VectorQ(v) : v \in SpillVectors}

NextSpill == \E q \in SpillQueries : RetrievalSet(q)

SpecSpill == InitSpill /\ [][NextSpill]_vars

\* ---------------------------------------------------------------- properties
Leaves(T) == {p \in DOMAIN T : T[p].children = None}
Internals(T) == {p \in DOMAIN T : T[p].children # None}
Child(T, p, c) == T[T[p].children[c + 1]]

\* the height budget the constructor had at the depth of the node at path p
Budget(p) == kwargs.height - Len(p)

\* the node at path p lies on the way of vector v: at every node above it the
\* projection of v is on the side of the child the path takes
Reaches(T, p, v) ==
    \A n \in 1..Len(p) :
        LET node == T[SubSeq(p, 1, n - 1)]
            P == 100 * dot(node.w, v)
        IN IF p[n] = 1 THEN P >= node.thresholds[1] ELSE P < node.thresholds[2]

LeavesOf(T, k) == {p \in Leaves(T) : k \in T[p].indices}

RetrieveByKey ==
    (last.op = "retrievalSet" /\ last.q.kind = "index") =>
        LET k == last.q.index
        IN /\ k \notin tree[<<>>].indices => last.ret = {}
           /\ k \in tree[<<>>].indices =>
                last.ret = UNION {tree[p].indices \ {k} : p \in LeavesOf(tree, k)}
           /\ k \notin last.ret
           /\ \A p \in Leaves(tree) :
                LeavesOf(tree, k) = {p} => last.ret = tree[p].indices \ {k}

\* a key held by two leaves with different members was queried
RetrieveByKeyWitness ==
    /\ last.op = "retrievalSet" /\ last.q.kind = "index"
    /\ \E p1, p2 \in LeavesOf(tree, last.q.index) :
        /\ tree[p1].indices # tree[p2].indices
        /\ last.ret = (tree[p1].indices \cup tree[p2].indices) \ {last.q.index}

KNearestCorrect ==
    (last.op = "k_nearest" /\ last.raised = None) =>
        LET R == retrievalSet(tree, last.q)
            x == IF last.q.kind = "index" THEN data[last.q.index] ELSE last.q.vector
            L == last.ret
            n == Len(L)
        IN /\ n = IF last.k < Cardinality(R) THEN last.k ELSE Cardinality(R)
           /\ \A i, j \in 1..n : i # j => L[i] # L[j]
           /\ \A i \in 1..n : L[i] \in R
           /\ \A i \in 1..n : i < n => sqdist(x, data[L[i]]) <= sqdist(x, data[L[i + 1]])
           /\ \A key \in R : (\A i \in 1..n : L[i] # key) =>
                \A i \in 1..n : sqdist(x, data[key]) >= sqdist(x, data[L[i]])

\* k = 2 of at least three candidates at different distances were returned
KNearestWitness ==
    /\ last.op = "k_nearest" /\ last.raised = None
    /\ last.k = 2 /\ Len(last.ret) = 2
    /\ Cardinality(retrievalSet(tree, last.q)) >= 3
    /\ LET x == IF last.q.kind = "index" THEN data[last.q.index] ELSE last.q.vector
       IN sqdist(x, data[last.ret[1]]) < sqdist(x, data[last.ret[2]])

\* the member sets of the two children of every internal node are disjoint, and
\* every member of the tree is in exactly one leaf
IsPartition(T) ==
    /\ \A p \in Internals(T) : Child(T, p, 0).indices \cap Child(T, p, 1).indices = {}
    /\ \A k \in T[<<>>].indices : Cardinality(LeavesOf(T, k)) = 1

UpdateFrame ==
    [][ /\ DOMAIN tree' = DOMAIN tree
        /\ \A p \in DOMAIN tree :
            /\ [tree'[p] EXCEPT !.indices = {}] = [tree[p] EXCEPT !.indices = {}]
            /\ tree[p].indices \subseteq tree'[p].indices
            /\ tree'[p].indices \subseteq
                 tree[p].indices \cup (IF last'.op = "update" THEN DOMAIN last'.D ELSE {})
        /\ (last'.op = "update" /\ (DOMAIN last'.D = {} \/ last'.raised = "TypeError"))
              => tree' = tree
      ]_vars

\* an update has added a key to a tree that splits; the tree is no longer the
\* one constructed
UpdateFrameWitness ==
    /\ last.op = "update" /\ last.raised = None
    /\ tree[<<>>].children # None
    /\ tree # built

\* C7, as claimed: in every reachable state every leaf has fewer than min_items
\* members or sits where the height budget was 0.
LeafRule ==
    \A p \in Leaves(tree) :
        Cardinality(tree[p].indices) < kwargs.min_items \/ Budget(p) = 0

\* C7, amended: every leaf had fewer than min_items members when it was
\* constructed, or sits where the height budget was 0 (update adds members to a
\* leaf and never splits it).
LeafRuleAtConstruction ==
    /\ Leaves(tree) = Leaves(built)
    /\ \A p \in Leaves(tree) :
        Cardinality(built[p].indices) < kwargs.min_items \/ Budget(p) = 0
    /\ nupdates = 0 => LeafRule

\* an update has run on a tree with a leaf of fewer than min_items members above
\* the bottom of the height budget
LeafRuleWitness ==
    /\ last.op = "update" /\ last.raised = None /\ DOMAIN last.D # {}
    /\ \E p \in Leaves(tree) :
        /\ Budget(p) > 0
        /\ kwargs.min_items > 1
        /\ DOMAIN last.D \subseteq tree[p].indices

\* C8, as claimed: for the same store and arguments and any query, the retrieval
\* set under spill = 0.5 has at least as many keys as under spill = 0, for a tree
\* of any height.
SpillMonotone ==
    last.op = "retrievalSet" =>
        Cardinality(last.ret) >= Cardinality(retrievalSet(tree0, last.q))

\* C8, amended: the same, for trees built with height at most 1.
SpillMonotoneHeightOne == kwargs.height <= 1 => SpillMonotone

\* a query on a tree of height 1 returned more keys than under spill = 0
SpillMonotoneWitness ==
    /\ last.op = "retrievalSet"
    /\ kwargs.height = 1 /\ tree[<<>>].children # None
    /\ retrievalSet(tree0, last.q) # {}
    /\ Cardinality(last.ret) > Cardinality(retrievalSet(tree0, last.q))

\* the projections of the members of the node at path p, as the constructor
\* computed them
Projections(T, p) == [i \in T[p].indices |-> dot(T[p].w, data[i])]

\* the quantile at p20 / 20 read off position q * (n - 1) of the n sorted values,
\* counted from 0, by linear interpolation; in hundredths
LinearQuantile(a, p20) ==
    LET x == sorted(DOMAIN a, a)
        pos == 5 * p20 * (Len(x) - 1)
        j == pos \div 100
        f == pos % 100
    IN IF f = 0 THEN 100 * x[j + 1] ELSE (100 - f) * x[j + 1] + f * x[j + 2]

\* the quantile at p20 / 20 read off position n * q + 0.4 + 0.2 * q of the n
\* sorted values, counted from 1 and kept within 1..n, by linear interpolation;
\* in hundredths
PlottingQuantile(a, p20) ==
    LET x == sorted(DOMAIN a, a)
        n == Len(x)
        pos == clip(5 * n * p20 + 40 + p20, 100, 100 * n)
        j == pos \div 100
        f == pos % 100
    IN IF f = 0 THEN 100 * x[j] ELSE (100 - f) * x[j] + f * x[j + 1]

\* C9, as claimed: the thresholds of every internal node the constructor built
\* are the quantiles at 0.5 -/+ spill/2 read off position q * (n - 1).
ThresholdsLinear ==
    nupdates = 0 =>
        \A p \in Internals(tree) :
            tree[p].thresholds =
                <<LinearQuantile(Projections(tree, p), 10 - kwargs.spill),
                  LinearQuantile(Projections(tree, p), 10 + kwargs.spill)>>

\* C9, amended: the thresholds of every internal node the constructor built are
\* the quantiles at 0.5 -/+ spill/2 read off position n * q + 0.4 + 0.2 * q
\* (from 1, within 1..n); lo <= hi, and with spill = 0 both are the median, the
\* quantile at position 0.5 * (n - 1).
ThresholdsPlotting ==
    /\ nupdates = 0 =>
        \A p \in Internals(tree) :
            /\ tree[p].thresholds =
                 <<PlottingQuantile(Projections(tree, p), 10 - kwargs.spill),
                   PlottingQuantile(Projections(tree, p), 10 + kwargs.spill)>>
            /\ kwargs.spill = 0 =>
                 tree[p].thresholds[1] = LinearQuantile(Projections(tree, p), 10)
    /\ \A p \in Internals(tree) :
        /\ tree[p].thresholds[1] <= tree[p].thresholds[2]
        /\ kwargs.spill = 0 => tree[p].thresholds[1] = tree[p].thresholds[2]

\* the constructor split a node of three members with spill = 0.5: lo < hi, and
\* neither is an order statistic
ThresholdsWitness ==
    /\ nupdates = 0 /\ kwargs.spill = 5
    /\ tree[<<>>].children # None
    /\ Cardinality(tree[<<>>].indices) = 3
    /\ tree[<<>>].thresholds[1] < tree[<<>>].thresholds[2]
    /\ tree[<<>>].thresholds[1] % 100 # 0

\* C10: while update has only inserted keys that were not in the tree, for a
\* member k with stored vector x, retrievalSet(index=k) is retrievalSet(vector=x)
\* without k, and the leaves that hold k are the leaves x reaches.
KeyVectorAgree ==
    (last.op = "retrievalSet" /\ last.q.kind = "index" /\ ~reinserted
     /\ last.q.index \in tree[<<>>].indices) =>
        LET k == last.q.index
        IN /\ last.ret = retrieveVector(tree, <<>>, data[k]) \ {k}
           /\ LeavesOf(tree, k) = {p \in Leaves(tree) : Reaches(tree, p, data[k])}

\* a key that update inserted was queried, and it is in two leaves
KeyVectorWitness ==
    /\ last.op = "retrievalSet" /\ last.q.kind = "index" /\ ~reinserted
    /\ nupdates > 0
    /\ last.q.index \notin built[<<>>].indices
    /\ Cardinality(LeavesOf(tree, last.q.index)) = 2
    /\ last.ret # {}

====
